---- MODULE Spec2Model ----
(***************************************************************************)
(* Model of the segmented in-memory store (internal/storage) and of the    *)
(* HTTP request handlers that drive it (internal/api_server.go).           *)
(*                                                                         *)
(* Each goroutine is a thread with a program counter; every blocking lock  *)
(* acquisition is a step of its own, so that all interleavings the Go      *)
(* scheduler can produce between two lock operations are explored.         *)
(***************************************************************************)
EXTENDS Integers, Sequences, FiniteSets, TLC

\* ------------------------------------------------------------------------
\* Bit operations on naturals (Go's &, |, ^ and >> on non-negative values)
\* ------------------------------------------------------------------------
RECURSIVE BitAnd(_, _)
BitAnd(a, b) ==
    IF a = 0 \/ b = 0 THEN 0
    ELSE (a % 2) * (b % 2) + 2 * BitAnd(a \div 2, b \div 2)

RECURSIVE BitOr(_, _)
BitOr(a, b) ==
    IF a = 0 THEN b
    ELSE IF b = 0 THEN a
    ELSE (IF a % 2 = 1 \/ b % 2 = 1 THEN 1 ELSE 0) + 2 * BitOr(a \div 2, b \div 2)

RECURSIVE BitXor(_, _)
BitXor(a, b) ==
    IF a = 0 THEN b
    ELSE IF b = 0 THEN a
    ELSE ((a + b) % 2) + 2 * BitXor(a \div 2, b \div 2)

ShiftRight(a, k) == a \div (2 ^ k)

\* ------------------------------------------------------------------------
\* Widths
\* ------------------------------------------------------------------------
\* currentSize and maxSize are uint64.  TLC's integers are 32 bits wide, so
\* the counter wraps at 2^20 here; every capacity of the model is far below
\* it, and a wrapped value is still far above every capacity, as in Go.
SizeModulus == 1048576

\* fnv1a works on uint64; only the bits selected by segmentMask are used.
\* The low 16 bits of h ^ b and of h * prime depend only on the low 16 bits
\* of the operands, so the hash is computed modulo 2^16.
HashModulus == 65536
FnvOffsetLow == 8997   \* 0xcbf29ce484222325 mod 2^16 = 0x2325
FnvPrimeLow == 435     \* 0x100000001b3 mod 2^16 = 0x01b3

U64Add(a, b) == (a + b) % SizeModulus
U64Sub(a, b) == (a - b + SizeModulus) % SizeModulus

\* ------------------------------------------------------------------------
\* Values
\* ------------------------------------------------------------------------
Threads == {"t1", "t2"}
NoThread == "none"

\* Keys are Go strings, modelled as their bytes: "A-1" and "B-2".
KeyA1 == <<65, 45, 49>>
KeyB2 == <<66, 45, 50>>
Keys == {KeyA1, KeyB2}

\* uuid.UUID is [16]byte.
UUIDLen == 16
NilUUID == [i \in 1..UUIDLen |-> 0]
UUID1 == [i \in 1..UUIDLen |-> 17]
UUID2 == [i \in 1..UUIDLen |-> 34]
UUIDs == {UUID1, UUID2}

\* The textual ids a request body can carry; the last one is malformed.
IdText1 == "11111111-1111-1111-1111-111111111111"
IdText2 == "22222222-2222-2222-2222-222222222222"
IdTextBad == "not-a-uuid"
IdTexts == {IdText1, IdText2, IdTextBad}

\* uuid.Parse: the parsed value and whether parsing failed.  On failure the
\* library returns the zero UUID.
ParseUUID(s) ==
    CASE s = IdText1 -> [id |-> UUID1, err |-> FALSE]
      [] s = IdText2 -> [id |-> UUID2, err |-> FALSE]
      [] OTHER -> [id |-> NilUUID, err |-> TRUE]

ErrNil == "nil"
ErrKeyNotFound == "key not found"
ErrInsufficientMemory == "insufficient memory"

\* DataEntry{}: Go's zero value.
ZeroEntry ==
    [Id |-> NilUUID, SeismicActivity |-> 0, TemperatureC |-> 0,
     RadiationLevel |-> 0, LocationId |-> <<>>, ModificationCount |-> 0,
     LastUpdated |-> 0]

\* RequestData as decoded from the body of a PUT: two well-formed requests
\* that differ in every field, and one whose id does not parse.
Requests ==
    {[ID |-> IdText1, SeismicActivity |-> 1, TemperatureC |-> 2, RadiationLevel |-> 3],
     [ID |-> IdText2, SeismicActivity |-> 4, TemperatureC |-> 5, RadiationLevel |-> 6],
     [ID |-> IdTextBad, SeismicActivity |-> 7, TemperatureC |-> 8, RadiationLevel |-> 9]}

ZeroRequest ==
    [ID |-> "", SeismicActivity |-> 0, TemperatureC |-> 0, RadiationLevel |-> 0]

\* Entries a direct caller of Put passes: two entries that differ in every
\* field the store keeps.
CallerEntries(k) ==
    {[Id |-> UUID1, SeismicActivity |-> 1, TemperatureC |-> 2,
      RadiationLevel |-> 3, LocationId |-> k, ModificationCount |-> 1,
      LastUpdated |-> 0],
     [Id |-> UUID2, SeismicActivity |-> 4, TemperatureC |-> 5,
      RadiationLevel |-> 6, LocationId |-> k, ModificationCount |-> 2,
      LastUpdated |-> 0]}

\* time.Now().UnixNano(): the values the clock can return.
Timestamps == {1}

\* The number of requests the server is followed for.
MaxRequests == 3

\* The number of calls the store is followed for, where every method is called.
MaxCalls == 3

\* The number of calls the store is followed for, where Count runs beside
\* Put and Delete.
MaxCountCalls == 4

\* The number of Count and GetKeys calls in progress at once.
MaxScans == 1

\* Capacities the store is constructed with, and the segment count main passes.
MaxSizes == {120, 256}
NumSegmentsArg == 16

\* Segment counts a caller of NewSegmentedHashTable can pass: negative ones,
\* zero, powers of two and the numbers between them.
MaxSegmentsArg == 17
SegmentArgs == (0 - MaxSegmentsArg)..MaxSegmentsArg

\* Buffer sizes asked of the pool manager; they are also the capacities a
\* buffer can have when it comes back (a caller may have resliced it).
MaxBufferSize == 2
BufferSizes == 0..MaxBufferSize

\* The number of calls the pool manager is followed for.
MaxPoolCalls == 3

\* A byte a caller writes into a buffer.
CallerByte == 7

\* A *[]byte: the slice's length and the bytes of its backing array from the
\* slice's start (their number is the capacity); hist records whether a
\* caller has written to it and whether it has been through a pool since.
NoBuffer == [ok |-> FALSE, len |-> 0, data |-> <<>>, hist |-> "none"]
Cap(b) == Len(b.data)

\* PoolManager.pools when empty.
NoPools == [s \in {} |-> 0]

\* ------------------------------------------------------------------------
\* Pure functions of the store
\* ------------------------------------------------------------------------
RECURSIVE fnv1aFrom(_, _, _)
fnv1aFrom(h, s, i) ==
    IF i > Len(s) THEN h
    ELSE fnv1aFrom((BitXor(h, s[i]) * FnvPrimeLow) % HashModulus, s, i + 1)

fnv1a(s) == fnv1aFrom(FnvOffsetLow, s, 1)

\* The rounding of NewSegmentedHashTable.  For n <= 0 the decrement makes the
\* value negative, the shifts fill it to -1 and the increment yields 0.
RoundSegments(n) ==
    IF n <= 0 THEN 0
    ELSE IF BitAnd(n, n - 1) # 0
    THEN LET n0 == n - 1
             n1 == BitOr(n0, ShiftRight(n0, 1))
             n2 == BitOr(n1, ShiftRight(n1, 2))
             n3 == BitOr(n2, ShiftRight(n2, 4))
             n4 == BitOr(n3, ShiftRight(n3, 8))
             n5 == BitOr(n4, ShiftRight(n4, 16))
         IN  n5 + 1
    ELSE n

EmptyMap == [k \in {} |-> ZeroEntry]
MapSet(m, k, v) == [x \in (DOMAIN m) \cup {k} |-> IF x = k THEN v ELSE m[x]]
MapDelete(m, k) == [x \in (DOMAIN m) \ {k} |-> m[x]]

FreeLock == [w |-> NoThread, r |-> {}]

\* A size that leaves the key out.
EntrySizeNoKey(k, e) == U64Add(100, Len(e.Id))

\* 100 + len(key) + len(entry.Id)
EntrySize(k, e) == U64Add(U64Add(100, Len(k)), Len(e.Id))

\* ------------------------------------------------------------------------
\* State
\* ------------------------------------------------------------------------
VARIABLES
    segments,     \* segment index -> [data: map key -> DataEntry, mu: RWMutex]
    segmentMask,  \* numSegments - 1
    maxSize,      \* capacity in bytes
    currentSize,  \* usage counter
    sizeLock,     \* RWMutex guarding currentSize
    pc,           \* thread -> position in the operation it runs
    loc,          \* thread -> arguments, locals and results of that operation
    wrote,        \* thread -> the running operation has assigned currentSize or a map
    lastPut,      \* key -> the entry passed to the latest Put that stored it, if not deleted since
    pristine,     \* no Put has replaced an entry and no Delete has removed one
    requests,     \* number of HTTP requests the server has accepted
    requestedSegments,  \* the segment count NewSegmentedHashTable was called with
    calls,        \* number of calls started, in the specifications that count them
    pools,        \* PoolManager.pools: buffer size -> index of its BytePool
    poolMu,       \* PoolManager.mu
    bytePools,    \* the BytePools created so far: [size, items of its sync.Pool]
    made,         \* buffer size -> BytePools created for it since the last Cleanup
    seen          \* thread -> the numbers of stored entries there have been during its Count

poolVars == <<pools, poolMu, bytePools, made>>

vars ==
    <<segments, segmentMask, maxSize, currentSize, sizeLock, pc, loc, wrote,
      lastPut, pristine, requests, requestedSegments, calls, poolVars, seen>>

\* lastPut of a key that has not been put, or not since it was deleted
NoEntry == [entry |-> ZeroEntry, ok |-> FALSE]

IdleLoc ==
    [op |-> "none", key |-> <<>>, entry |-> ZeroEntry, req |-> ZeroRequest,
     ret |-> ZeroEntry, err |-> ErrNil, entrySize |-> 0, oldSize |-> 0,
     exists |-> FALSE, size |-> 0, id |-> NilUUID, status |-> 0, seg |-> 0,
     i |-> 0, count |-> 0, keys |-> <<>>,
     bsize |-> 0, pool |-> 0, buf |-> NoBuffer, slow |-> FALSE, cleaned |-> FALSE]

\* NewSegmentedHashTable(numSegments, maxSizeBytes)
NewSegmentedHashTable(numSegments, maxSizeBytes) ==
    LET n == RoundSegments(numSegments)
    IN  [segments |-> [i \in 0..(n - 1) |-> [data |-> EmptyMap, mu |-> FreeLock]],
         segmentMask |-> U64Sub(n, 1),
         maxSize |-> maxSizeBytes,
         currentSize |-> 0]

\* The store as NewSegmentedHashTable(n, m) returns it, for some capacity m.
Constructed(n) ==
    /\ \E m \in MaxSizes :
         LET sht == NewSegmentedHashTable(n, m)
         IN  /\ segments = sht.segments
             /\ segmentMask = sht.segmentMask
             /\ maxSize = sht.maxSize
             /\ currentSize = sht.currentSize
    /\ requestedSegments = n
    /\ sizeLock = FreeLock

\* No goroutine has started a call.
NoCalls ==
    /\ pc = [t \in Threads |-> "idle"]
    /\ loc = [t \in Threads |-> IdleLoc]
    /\ wrote = [t \in Threads |-> FALSE]
    /\ lastPut = [k \in Keys |-> NoEntry]
    /\ pristine = TRUE
    /\ requests = 0
    /\ calls = 0
    /\ seen = [t \in Threads |-> {}]

\* NewPoolManager(): an empty map of pools.
NewPoolManager ==
    /\ pools = NoPools
    /\ poolMu = FreeLock
    /\ bytePools = <<>>
    /\ made = [s \in BufferSizes |-> 0]

Init == Constructed(NumSegmentsArg) /\ NoCalls /\ NewPoolManager

\* fnv1a of every key a call can carry (and of the empty key of a call
\* without one), computed once.
KeyHash == [k \in Keys \cup {<<>>} |-> fnv1a(k)]

\* getSegment: the index of the segment that owns key
SegmentIndex(key) == BitAnd(KeyHash[key], segmentMask)

\* segment.data[key] with the comma-ok form
Lookup(key) ==
    LET m == segments[SegmentIndex(key)].data
    IN  IF key \in DOMAIN m
        THEN [entry |-> m[key], ok |-> TRUE]
        ELSE [entry |-> ZeroEntry, ok |-> FALSE]

\* The keys some segment holds an entry for.
StoredKeys == {k \in Keys : Lookup(k).ok}

\* seen once the store holds the keys ks: every Count in progress has the
\* number of stored entries added to what it has been since the call began.
Observed(ks) ==
    [u \in Threads |->
       IF loc[u].op = "Count" /\ pc[u] # "done"
       THEN seen[u] \cup {Cardinality(ks)}
       ELSE seen[u]]

\* A shared lock that is granted while a writer holds the mutex.
CanRLockAlways(mu) == TRUE

\* sync.RWMutex.  A reader waits only for a writer that holds the lock; Go
\* also makes it wait for a writer that is queued, which removes behaviours
\* and adds none.
CanRLock(mu) == mu.w = NoThread
CanLock(mu) == mu.w = NoThread /\ mu.r = {}
RLock(mu, t) == [mu EXCEPT !.r = @ \cup {t}]
RUnlock(mu, t) == [mu EXCEPT !.r = @ \ {t}]
Lock(mu, t) == [mu EXCEPT !.w = t]

\* An Unlock that leaves the mutex held.
UnlockNot(mu, t) == mu

\* sync.RWMutex.Unlock
Unlock(mu, t) == [mu EXCEPT !.w = NoThread]

\* Where a thread goes when a store call returns: back into the handler that
\* made the call, or to the caller of the store.
AfterCall(t, call) ==
    CASE loc[t].op = "handlePut" /\ call = "Get" -> "hput_merge"
      [] loc[t].op = "handlePut" /\ call = "Put" -> "hput_respond"
      [] loc[t].op = "handleGet" /\ call = "Get" -> "hget_respond"
      [] OTHER -> "done"

\* ------------------------------------------------------------------------
\* Get
\* ------------------------------------------------------------------------
StartGet(t) ==
    /\ pc[t] = "idle"
    /\ \E k \in Keys : loc' = [loc EXCEPT ![t] = [IdleLoc EXCEPT !.op = "Get", !.key = k]]
    /\ pc' = [pc EXCEPT ![t] = "get_rlock"]
    /\ wrote' = [wrote EXCEPT ![t] = FALSE]
    /\ UNCHANGED <<segments, segmentMask, maxSize, currentSize, sizeLock, lastPut, pristine, requests, requestedSegments, calls, poolVars, seen>>

\* segment.mu.RLock()
GetRLock(t) ==
    /\ pc[t] = "get_rlock"
    /\ LET i == SegmentIndex(loc[t].key)
       IN  /\ CanRLock(segments[i].mu)
           /\ segments' = [segments EXCEPT ![i].mu = RLock(@, t)]
    /\ pc' = [pc EXCEPT ![t] = "get_read"]
    /\ UNCHANGED <<segmentMask, maxSize, currentSize, sizeLock, loc, wrote, lastPut, pristine, requests, requestedSegments, calls, poolVars, seen>>

\* A Get that returns the zero entry for a key it found.
GetResultZero(found) ==
    [entry |-> ZeroEntry, err |-> IF found.ok THEN ErrNil ELSE ErrKeyNotFound]

\* The value Get returns for what the lookup found.
GetResult(found) ==
    IF found.ok
    THEN [entry |-> found.entry, err |-> ErrNil]
    ELSE [entry |-> ZeroEntry, err |-> ErrKeyNotFound]

\* the lookup, the deferred RUnlock and the return
GetRead(t) ==
    /\ pc[t] = "get_read"
    /\ LET i == SegmentIndex(loc[t].key)
           res == GetResult(Lookup(loc[t].key))
       IN  /\ segments' = [segments EXCEPT ![i].mu = RUnlock(@, t)]
           /\ loc' = [loc EXCEPT ![t].ret = res.entry, ![t].err = res.err]
    /\ pc' = [pc EXCEPT ![t] = AfterCall(t, "Get")]
    /\ UNCHANGED <<segmentMask, maxSize, currentSize, sizeLock, wrote, lastPut, pristine, requests, requestedSegments, calls, poolVars, seen>>

\* ------------------------------------------------------------------------
\* Put
\* ------------------------------------------------------------------------
StartPut(t) ==
    /\ pc[t] = "idle"
    /\ \E k \in Keys : \E e \in CallerEntries(k) :
         loc' = [loc EXCEPT ![t] = [IdleLoc EXCEPT !.op = "Put", !.key = k, !.entry = e]]
    /\ pc' = [pc EXCEPT ![t] = "put_rlock"]
    /\ wrote' = [wrote EXCEPT ![t] = FALSE]
    /\ UNCHANGED <<segments, segmentMask, maxSize, currentSize, sizeLock, lastPut, pristine, requests, requestedSegments, calls, poolVars, seen>>

\* sht.sizeLock.RLock()
PutRLock(t) ==
    /\ pc[t] = "put_rlock"
    /\ CanRLock(sizeLock)
    /\ sizeLock' = RLock(sizeLock, t)
    /\ pc' = [pc EXCEPT ![t] = "put_check"]
    /\ UNCHANGED <<segments, segmentMask, maxSize, currentSize, loc, wrote, lastPut, pristine, requests, requestedSegments, calls, poolVars, seen>>

\* A first check that never finds the store full.
StoreFullNever(cur, max) == FALSE

\* The first check: is the store already full?
StoreFull(cur, max) == cur >= max

\* the first check, with the RUnlock of either branch
PutCheck(t) ==
    /\ pc[t] = "put_check"
    /\ sizeLock' = RUnlock(sizeLock, t)
    /\ IF StoreFull(currentSize, maxSize)
       THEN /\ loc' = [loc EXCEPT ![t].err = ErrInsufficientMemory]
            /\ pc' = [pc EXCEPT ![t] = AfterCall(t, "Put")]
       ELSE /\ loc' = loc
            /\ pc' = [pc EXCEPT ![t] = "put_lockseg"]
    /\ UNCHANGED <<segments, segmentMask, maxSize, currentSize, wrote, lastPut, pristine, requests, requestedSegments, calls, poolVars, seen>>

\* The size of the entry under key, or 0.  The exists of
\* "if oldEntry, exists := segment.data[key]; exists" is a new variable of the
\* if statement: the exists declared before it keeps the value false.
OldEntry(found, key) ==
    [oldSize |-> IF found.ok
                 THEN U64Add(U64Add(100, Len(key)), Len(found.entry.Id))
                 ELSE 0,
     exists |-> FALSE]

\* segment.mu.Lock(), then the sizes of the new and of the old entry
PutLockSegment(t) ==
    /\ pc[t] = "put_lockseg"
    /\ LET k == loc[t].key
           i == SegmentIndex(k)
           old == OldEntry(Lookup(k), k)
       IN  /\ CanLock(segments[i].mu)
           /\ segments' = [segments EXCEPT ![i].mu = Lock(@, t)]
           /\ loc' = [loc EXCEPT ![t].entrySize = EntrySize(k, loc[t].entry),
                                 ![t].oldSize = old.oldSize,
                                 ![t].exists = old.exists]
    /\ pc' = [pc EXCEPT ![t] = "put_locksize"]
    /\ UNCHANGED <<segmentMask, maxSize, currentSize, sizeLock, wrote, lastPut, pristine, requests, requestedSegments, calls, poolVars, seen>>

\* sht.sizeLock.Lock()
PutLockSize(t) ==
    /\ pc[t] = "put_locksize"
    /\ CanLock(sizeLock)
    /\ sizeLock' = Lock(sizeLock, t)
    /\ pc' = [pc EXCEPT ![t] = "put_adjust"]
    /\ UNCHANGED <<segments, segmentMask, maxSize, currentSize, loc, wrote, lastPut, pristine, requests, requestedSegments, calls, poolVars, seen>>

\* An admission that never rejects.
AdmitAlways(cur, max, entrySize, oldSize, exists) ==
    [ok |-> TRUE, size |-> U64Add(cur, U64Sub(entrySize, oldSize))]

\* The admission decision and the new value of the counter.
Admit(cur, max, entrySize, oldSize, exists) ==
    IF entrySize > oldSize
    THEN IF U64Add(cur, U64Sub(entrySize, oldSize)) > max
         THEN [ok |-> FALSE, size |-> cur]
         ELSE [ok |-> TRUE, size |-> U64Add(cur, U64Sub(entrySize, oldSize))]
    ELSE IF exists
    THEN [ok |-> TRUE, size |-> U64Sub(cur, U64Sub(oldSize, entrySize))]
    ELSE [ok |-> TRUE, size |-> U64Add(cur, entrySize)]

\* the admission under sizeLock; a rejection also runs the deferred
\* segment.mu.Unlock()
PutAdjust(t) ==
    /\ pc[t] = "put_adjust"
    /\ LET i == SegmentIndex(loc[t].key)
           a == Admit(currentSize, maxSize, loc[t].entrySize, loc[t].oldSize,
                      loc[t].exists)
       IN  /\ sizeLock' = Unlock(sizeLock, t)
           /\ IF a.ok
              THEN /\ currentSize' = a.size
                   /\ wrote' = [wrote EXCEPT ![t] = TRUE]
                   /\ pc' = [pc EXCEPT ![t] = "put_store"]
                   /\ UNCHANGED <<segments, loc>>
              ELSE /\ segments' = [segments EXCEPT ![i].mu = Unlock(@, t)]
                   /\ loc' = [loc EXCEPT ![t].err = ErrInsufficientMemory]
                   /\ pc' = [pc EXCEPT ![t] = AfterCall(t, "Put")]
                   /\ UNCHANGED <<currentSize, wrote>>
    /\ UNCHANGED <<segmentMask, maxSize, lastPut, pristine, requests, requestedSegments, calls, poolVars, seen>>

\* The entry Put stores: the caller's entry, stamped.
Stamped(entry, ts) == [entry EXCEPT !.LastUpdated = ts]

\* the stamp, the store, the deferred segment.mu.Unlock() and the return
PutStore(t) ==
    /\ pc[t] = "put_store"
    /\ LET k == loc[t].key
           i == SegmentIndex(k)
       IN  /\ \E ts \in Timestamps :
                segments' = [segments EXCEPT
                               ![i].data = MapSet(@, k, Stamped(loc[t].entry, ts)),
                               ![i].mu = Unlock(@, t)]
           /\ pristine' = (pristine /\ ~Lookup(k).ok)
           /\ lastPut' = [lastPut EXCEPT ![k] = [entry |-> loc[t].entry, ok |-> TRUE]]
           /\ seen' = Observed(StoredKeys \cup {k})
    /\ loc' = [loc EXCEPT ![t].err = ErrNil]
    /\ wrote' = [wrote EXCEPT ![t] = TRUE]
    /\ pc' = [pc EXCEPT ![t] = AfterCall(t, "Put")]
    /\ UNCHANGED <<segmentMask, maxSize, currentSize, sizeLock, requests, requestedSegments, calls, poolVars>>

\* ------------------------------------------------------------------------
\* Delete
\* ------------------------------------------------------------------------
StartDelete(t) ==
    /\ pc[t] = "idle"
    /\ \E k \in Keys : loc' = [loc EXCEPT ![t] = [IdleLoc EXCEPT !.op = "Delete", !.key = k]]
    /\ pc' = [pc EXCEPT ![t] = "del_lockseg"]
    /\ wrote' = [wrote EXCEPT ![t] = FALSE]
    /\ UNCHANGED <<segments, segmentMask, maxSize, currentSize, sizeLock, lastPut, pristine, requests, requestedSegments, calls, poolVars, seen>>

\* segment.mu.Lock() and the lookup; an absent key returns at once, which
\* runs the deferred segment.mu.Unlock()
DeleteLockSegment(t) ==
    /\ pc[t] = "del_lockseg"
    /\ LET k == loc[t].key
           i == SegmentIndex(k)
           found == Lookup(k)
       IN  /\ CanLock(segments[i].mu)
           /\ IF found.ok
              THEN /\ segments' = [segments EXCEPT ![i].mu = Lock(@, t)]
                   /\ loc' = [loc EXCEPT ![t].entrySize = EntrySize(k, found.entry)]
                   /\ pc' = [pc EXCEPT ![t] = "del_locksize"]
              ELSE /\ segments' = segments
                   /\ loc' = [loc EXCEPT ![t].err = ErrKeyNotFound]
                   /\ pc' = [pc EXCEPT ![t] = "done"]
    /\ UNCHANGED <<segmentMask, maxSize, currentSize, sizeLock, wrote, lastPut, pristine, requests, requestedSegments, calls, poolVars, seen>>

\* sht.sizeLock.Lock()
DeleteLockSize(t) ==
    /\ pc[t] = "del_locksize"
    /\ CanLock(sizeLock)
    /\ sizeLock' = Lock(sizeLock, t)
    /\ pc' = [pc EXCEPT ![t] = "del_decr"]
    /\ UNCHANGED <<segments, segmentMask, maxSize, currentSize, loc, wrote, lastPut, pristine, requests, requestedSegments, calls, poolVars, seen>>

\* A release of the fixed overhead alone.
ReleasedOverhead(cur, entrySize) == U64Sub(cur, 100)

\* A release of twice the entry's size.
ReleasedTwice(cur, entrySize) == U64Sub(cur, 2 * entrySize)

\* The counter after a deletion.
Released(cur, entrySize) == U64Sub(cur, entrySize)

\* sht.currentSize -= entrySize and sht.sizeLock.Unlock()
DeleteDecrement(t) ==
    /\ pc[t] = "del_decr"
    /\ currentSize' = Released(currentSize, loc[t].entrySize)
    /\ sizeLock' = Unlock(sizeLock, t)
    /\ wrote' = [wrote EXCEPT ![t] = TRUE]
    /\ pc' = [pc EXCEPT ![t] = "del_remove"]
    /\ UNCHANGED <<segments, segmentMask, maxSize, loc, lastPut, pristine, requests, requestedSegments, calls, poolVars, seen>>

\* delete(segment.data, key), the deferred segment.mu.Unlock() and the return
DeleteRemove(t) ==
    /\ pc[t] = "del_remove"
    /\ LET k == loc[t].key
           i == SegmentIndex(k)
       IN  /\ segments' = [segments EXCEPT ![i].data = MapDelete(@, k),
                                           ![i].mu = Unlock(@, t)]
           /\ lastPut' = [lastPut EXCEPT ![k] = NoEntry]
           /\ seen' = Observed(StoredKeys \ {k})
    /\ pristine' = FALSE
    /\ loc' = [loc EXCEPT ![t].err = ErrNil]
    /\ wrote' = [wrote EXCEPT ![t] = TRUE]
    /\ pc' = [pc EXCEPT ![t] = "done"]
    /\ UNCHANGED <<segmentMask, maxSize, currentSize, sizeLock, requests, requestedSegments, calls, poolVars>>

\* ------------------------------------------------------------------------
\* Size
\* ------------------------------------------------------------------------
StartSize(t) ==
    /\ pc[t] = "idle"
    /\ loc' = [loc EXCEPT ![t] = [IdleLoc EXCEPT !.op = "Size"]]
    /\ pc' = [pc EXCEPT ![t] = "size_rlock"]
    /\ wrote' = [wrote EXCEPT ![t] = FALSE]
    /\ UNCHANGED <<segments, segmentMask, maxSize, currentSize, sizeLock, lastPut, pristine, requests, requestedSegments, calls, poolVars, seen>>

\* sht.sizeLock.RLock()
SizeRLock(t) ==
    /\ pc[t] = "size_rlock"
    /\ CanRLock(sizeLock)
    /\ sizeLock' = RLock(sizeLock, t)
    /\ pc' = [pc EXCEPT ![t] = "size_read"]
    /\ UNCHANGED <<segments, segmentMask, maxSize, currentSize, loc, wrote, lastPut, pristine, requests, requestedSegments, calls, poolVars, seen>>

\* return sht.currentSize, with the deferred RUnlock
SizeRead(t) ==
    /\ pc[t] = "size_read"
    /\ sizeLock' = RUnlock(sizeLock, t)
    /\ loc' = [loc EXCEPT ![t].size = currentSize]
    /\ pc' = [pc EXCEPT ![t] = "done"]
    /\ UNCHANGED <<segments, segmentMask, maxSize, currentSize, wrote, lastPut, pristine, requests, requestedSegments, calls, poolVars, seen>>

\* The caller takes the result; the thread is free for its next operation.
Return(t) ==
    /\ pc[t] = "done"
    /\ pc' = [pc EXCEPT ![t] = "idle"]
    /\ loc' = [loc EXCEPT ![t] = IdleLoc]
    /\ wrote' = [wrote EXCEPT ![t] = FALSE]
    /\ UNCHANGED <<segments, segmentMask, maxSize, currentSize, sizeLock, lastPut, pristine, requests, requestedSegments, calls, poolVars, seen>>

\* ------------------------------------------------------------------------
\* The store under concurrent callers of Get, Put, Delete and Size
\* ------------------------------------------------------------------------
Next ==
    \E t \in Threads :
        \/ StartGet(t)
        \/ GetRLock(t)
        \/ GetRead(t)
        \/ StartPut(t)
        \/ PutRLock(t)
        \/ PutCheck(t)
        \/ PutLockSegment(t)
        \/ PutLockSize(t)
        \/ PutAdjust(t)
        \/ PutStore(t)
        \/ StartDelete(t)
        \/ DeleteLockSegment(t)
        \/ DeleteLockSize(t)
        \/ DeleteDecrement(t)
        \/ DeleteRemove(t)
        \/ StartSize(t)
        \/ SizeRLock(t)
        \/ SizeRead(t)
        \/ Return(t)

Spec == Init /\ [][Next]_vars

\* ------------------------------------------------------------------------
\* The request handlers
\* ------------------------------------------------------------------------
\* http.ResponseWriter: the first status written is the one sent; a later
\* WriteHeader is ignored.
WriteHeader(status, code) == IF status = 0 THEN code ELSE status

\* handleGet up to its call of s.store.Get
StartHandleGet(t) ==
    /\ pc[t] = "idle"
    /\ requests < MaxRequests
    /\ requests' = requests + 1
    /\ \E k \in Keys :
         loc' = [loc EXCEPT ![t] = [IdleLoc EXCEPT !.op = "handleGet", !.key = k]]
    /\ pc' = [pc EXCEPT ![t] = "get_rlock"]
    /\ wrote' = [wrote EXCEPT ![t] = FALSE]
    /\ UNCHANGED <<segments, segmentMask, maxSize, currentSize, sizeLock, lastPut, pristine, requestedSegments, calls, poolVars, seen>>

\* The status handleGet answers with.
GetStatus(err) ==
    IF err # ErrNil
    THEN IF err = ErrKeyNotFound THEN 404 ELSE 500
    ELSE 200

\* handleGet after Get has returned
HandleGetRespond(t) ==
    /\ pc[t] = "hget_respond"
    /\ loc' = [loc EXCEPT ![t].status = WriteHeader(@, GetStatus(loc[t].err))]
    /\ pc' = [pc EXCEPT ![t] = "done"]
    /\ UNCHANGED <<segments, segmentMask, maxSize, currentSize, sizeLock, wrote, lastPut, pristine, requests, requestedSegments, calls, poolVars, seen>>

\* The status written when the id of the body has been parsed: http.Error on
\* a parse error, after which the handler goes on (there is no return).
ParseStatus(parsed) == IF parsed.err THEN 400 ELSE 0

\* handlePut up to its call of s.store.Get: the body is decoded and its id
\* parsed
StartHandlePut(t) ==
    /\ pc[t] = "idle"
    /\ requests < MaxRequests
    /\ requests' = requests + 1
    /\ \E k \in Keys : \E rq \in Requests :
         LET parsed == ParseUUID(rq.ID)
         IN  loc' = [loc EXCEPT ![t] =
                        [IdleLoc EXCEPT !.op = "handlePut", !.key = k, !.req = rq,
                                        !.id = parsed.id,
                                        !.status = ParseStatus(parsed)]]
    /\ pc' = [pc EXCEPT ![t] = "get_rlock"]
    /\ wrote' = [wrote EXCEPT ![t] = FALSE]
    /\ UNCHANGED <<segments, segmentMask, maxSize, currentSize, sizeLock, lastPut, pristine, requestedSegments, calls, poolVars, seen>>

\* A counter that is left as it was, and one that is raised twice.
IncrementNone(c) == c
IncrementTwice(c) == c + 2

\* data.ModificationCount++
Increment(c) == c + 1

\* A merge that always builds a new entry.
MergeFresh(existingData, err, id, locationID, reqData) ==
    [ZeroEntry EXCEPT !.Id = id, !.ModificationCount = 1, !.LocationId = locationID,
                      !.SeismicActivity = reqData.SeismicActivity,
                      !.TemperatureC = reqData.TemperatureC,
                      !.RadiationLevel = reqData.RadiationLevel]

\* A merge that takes the identifier from the request even for an entry found.
MergeRequestId(existingData, err, id, locationID, reqData) ==
    [ZeroEntry EXCEPT !.Id = id,
                      !.ModificationCount =
                          IF err = ErrNil THEN existingData.ModificationCount + 1 ELSE 1,
                      !.LocationId = locationID,
                      !.SeismicActivity = reqData.SeismicActivity,
                      !.TemperatureC = reqData.TemperatureC,
                      !.RadiationLevel = reqData.RadiationLevel]

\* The entry handlePut builds from what Get returned and from the request.
Merge(existingData, err, id, locationID, reqData) ==
    LET data ==
          IF err = ErrNil
          THEN [existingData EXCEPT
                  !.ModificationCount = Increment(existingData.ModificationCount)]
          ELSE [ZeroEntry EXCEPT !.Id = id, !.ModificationCount = 1,
                                 !.LocationId = locationID]
    IN  [data EXCEPT !.SeismicActivity = reqData.SeismicActivity,
                     !.TemperatureC = reqData.TemperatureC,
                     !.RadiationLevel = reqData.RadiationLevel]

\* handlePut between Get and Put; an error of Get other than ErrKeyNotFound
\* ends the request
HandlePutMerge(t) ==
    /\ pc[t] = "hput_merge"
    /\ IF loc[t].err = ErrNil \/ loc[t].err = ErrKeyNotFound
       THEN /\ loc' = [loc EXCEPT ![t].entry =
                          Merge(loc[t].ret, loc[t].err, loc[t].id, loc[t].key,
                                loc[t].req)]
            /\ pc' = [pc EXCEPT ![t] = "put_rlock"]
       ELSE /\ loc' = [loc EXCEPT ![t].status = WriteHeader(@, 500)]
            /\ pc' = [pc EXCEPT ![t] = "done"]
    /\ UNCHANGED <<segments, segmentMask, maxSize, currentSize, sizeLock, wrote, lastPut, pristine, requests, requestedSegments, calls, poolVars, seen>>

\* The status handlePut answers with once Put has returned.
PutStatus(err) ==
    IF err # ErrNil
    THEN IF err = ErrInsufficientMemory THEN 507 ELSE 500
    ELSE 201

\* handlePut after Put has returned
HandlePutRespond(t) ==
    /\ pc[t] = "hput_respond"
    /\ loc' = [loc EXCEPT ![t].status = WriteHeader(@, PutStatus(loc[t].err))]
    /\ pc' = [pc EXCEPT ![t] = "done"]
    /\ UNCHANGED <<segments, segmentMask, maxSize, currentSize, sizeLock, wrote, lastPut, pristine, requests, requestedSegments, calls, poolVars, seen>>

\* One step of a request handler, the store calls it makes included.
HandlerStep(t) ==
    \/ StartHandleGet(t)
    \/ StartHandlePut(t)
    \/ GetRLock(t)
    \/ GetRead(t)
    \/ HandleGetRespond(t)
    \/ HandlePutMerge(t)
    \/ PutRLock(t)
    \/ PutCheck(t)
    \/ PutLockSegment(t)
    \/ PutLockSize(t)
    \/ PutAdjust(t)
    \/ PutStore(t)
    \/ HandlePutRespond(t)
    \/ Return(t)

\* The server: net/http runs every request on a goroutine of its own.
NextServer == \E t \in Threads : HandlerStep(t)

SpecServer == Init /\ [][NextServer]_vars

\* The server when requests arrive one after another: a thread takes a step
\* only while no other request is being handled.
Alone(t) == \A u \in Threads \ {t} : pc[u] = "idle"

NextSequential ==
    \E t \in Threads :
        \/ Alone(t) /\ StartHandleGet(t)
        \/ Alone(t) /\ StartHandlePut(t)
        \/ Alone(t) /\ GetRLock(t)
        \/ Alone(t) /\ GetRead(t)
        \/ Alone(t) /\ HandleGetRespond(t)
        \/ Alone(t) /\ HandlePutMerge(t)
        \/ Alone(t) /\ PutRLock(t)
        \/ Alone(t) /\ PutCheck(t)
        \/ Alone(t) /\ PutLockSegment(t)
        \/ Alone(t) /\ PutLockSize(t)
        \/ Alone(t) /\ PutAdjust(t)
        \/ Alone(t) /\ PutStore(t)
        \/ Alone(t) /\ HandlePutRespond(t)
        \/ Alone(t) /\ Return(t)

SpecSequential == Init /\ [][NextSequential]_vars

\* ------------------------------------------------------------------------
\* Vocabulary of the properties
\* ------------------------------------------------------------------------
Present(k) == Lookup(k).ok
Stored(k) == Lookup(k).entry
\* The same in the state a step leads to (the mask never changes).
PresentNext(k) == k \in DOMAIN segments'[SegmentIndex(k)].data
StoredNext(k) == segments'[SegmentIndex(k)].data[k]
Quiescent == \A t \in Threads : pc[t] \in {"idle", "done"}

\* Accounted size as the specification words it: a fixed overhead of 100,
\* plus the bytes of the key, plus the bytes of the identifier.
AccountedSize(k, e) == 100 + Len(k) + Len(e.Id)

RECURSIVE SumAccounted(_)
SumAccounted(ks) ==
    IF ks = {} THEN 0
    ELSE LET k == CHOOSE x \in ks : TRUE
         IN  (IF Present(k) THEN AccountedSize(k, Stored(k)) ELSE 0)
             + SumAccounted(ks \ {k})

\* Thread t takes the step that leaves position p.
Leaves(t, p) == pc[t] = p /\ pc'[t] # p

\* C1: Size() never exceeds MaxSize(), whatever Puts and Deletes have run.
C1_CapacityCeiling == currentSize <= maxSize

\* C2: a Put that is admitted for a key already present changes the counter
\* by the accounted size of the new entry minus that of the entry it replaces.
C2_UpdateDelta ==
    [][\A t \in Threads :
         (Leaves(t, "put_adjust") /\ pc'[t] = "put_store" /\ Present(loc[t].key))
         => currentSize' = currentSize + AccountedSize(loc[t].key, loc[t].entry)
                           - AccountedSize(loc[t].key, Stored(loc[t].key))]_vars

\* C3: while every successful Put so far went to a key that was absent, and
\* no call is running, Size() is the sum of 100 + len(key) + len(id) over the
\* stored entries.
C3_SizeIsSum == (pristine /\ Quiescent) => currentSize = SumAccounted(Keys)

C3_Witness ==
    /\ pristine
    /\ Quiescent
    /\ maxSize = 256
    /\ Present(KeyA1)
    /\ Present(KeyB2)
    /\ currentSize = 238

\* The fields of an entry that a caller of Put supplies and Get hands back.
Payload(e) ==
    <<e.Id, e.SeismicActivity, e.TemperatureC, e.RadiationLevel, e.ModificationCount>>

\* Thread t's call returns in this step with error e.
Fails(t, e) ==
    /\ pc[t] \in {"put_check", "put_adjust", "del_lockseg"}
    /\ pc'[t] = "done"
    /\ loc'[t].err = e

\* C4: a Put that would push Size() above MaxSize() returns
\* ErrInsufficientMemory, a Delete of an absent key returns ErrKeyNotFound,
\* and the failed call has changed neither Size() nor any segment's contents
\* (so not the stored modificationCount either).
C4_NoPartialMutation ==
    [][\A t \in Threads :
         /\ (Leaves(t, "put_adjust") /\ pc'[t] = "put_store")
                => currentSize' <= maxSize
         /\ (Leaves(t, "del_lockseg") /\ ~Present(loc[t].key))
                => Fails(t, ErrKeyNotFound)
         /\ (Fails(t, ErrInsufficientMemory) \/ Fails(t, ErrKeyNotFound))
                => /\ ~wrote[t]
                   /\ currentSize' = currentSize
                   /\ \A i \in DOMAIN segments : segments'[i].data = segments[i].data]_vars

\* C5: Delete of a present key goes on to succeed, lowers the counter by
\* exactly 100 + len(key) + len(id) of the stored entry, and removes the key;
\* only a Put makes the key present again, and a Get that reads the key while
\* it has not been put since returns ErrKeyNotFound.
C5_DeletePresent ==
    [][\A k \in Keys :
         /\ (~Present(k) /\ PresentNext(k))
                => \E u \in Threads : Leaves(u, "put_store") /\ loc[u].key = k
         /\ \A t \in Threads :
              loc[t].key = k
              => /\ (Leaves(t, "del_lockseg") /\ Present(k))
                        => pc'[t] = "del_locksize"
                 /\ Leaves(t, "del_decr")
                        => /\ currentSize >= AccountedSize(k, Stored(k))
                           /\ currentSize' = currentSize - AccountedSize(k, Stored(k))
                 /\ Leaves(t, "del_remove")
                        => /\ loc'[t].err = ErrNil
                           /\ ~PresentNext(k)
                           /\ ~lastPut'[k].ok
                 /\ (Leaves(t, "get_read") /\ loc[t].op = "Get" /\ ~lastPut[k].ok)
                        => loc'[t].err = ErrKeyNotFound]_vars

C5_Witness ==
    \E t, u \in Threads :
        /\ pc[t] = "done" /\ loc[t].op = "Delete" /\ loc[t].err = ErrNil
        /\ pc[u] = "done" /\ loc[u].op = "Get" /\ loc[u].key = loc[t].key
        /\ loc[u].err = ErrKeyNotFound
        /\ ~pristine
        /\ currentSize = 0

\* C6: Get returns ErrKeyNotFound for a key that was never put or was deleted
\* since its last Put, and otherwise the identifier, the three measurements
\* and the modificationCount passed to the latest successful Put of the key.
C6_GetLatestPut ==
    [][\A t \in Threads : \A k \in Keys :
         (Leaves(t, "get_read") /\ loc[t].op = "Get" /\ loc[t].key = k)
         => IF lastPut[k].ok
            THEN /\ loc'[t].err = ErrNil
                 /\ Payload(loc'[t].ret) = Payload(lastPut[k].entry)
            ELSE loc'[t].err = ErrKeyNotFound]_vars

C6_Witness ==
    \E t \in Threads :
        /\ pc[t] = "done" /\ loc[t].op = "Get" /\ loc[t].err = ErrNil
        /\ ~pristine
        /\ loc[t].ret.Id = UUID2
        /\ loc[t].ret.RadiationLevel = 6
        /\ loc[t].ret.ModificationCount = 2

\* Thread t, running handlePut, stores its entry in this step.
UpdateStores(t) == Leaves(t, "put_store") /\ loc[t].op = "handlePut"

\* C7: with requests handled one after another, the write of an update flow
\* leaves modificationCount 1 when the key was absent and 1 more than the
\* stored count when it was present.
C7_SequentialCount ==
    [][\A t \in Threads : \A k \in Keys :
         (UpdateStores(t) /\ loc[t].key = k)
         => StoredNext(k).ModificationCount =
               IF Present(k) THEN Stored(k).ModificationCount + 1 ELSE 1]_vars

C7_Witness ==
    \E t \in Threads :
        /\ pc[t] = "done" /\ loc[t].op = "handlePut" /\ loc[t].status = 201
        /\ Present(loc[t].key)
        /\ Stored(loc[t].key).ModificationCount = 3

\* C8 as claimed: under concurrent update flows every write to a present key
\* raises the stored modificationCount by exactly 1, and the stored count
\* never decreases.
C8_MonotoneCount ==
    [][\A k \in Keys :
         Present(k)
         => /\ PresentNext(k)
            /\ StoredNext(k).ModificationCount >= Stored(k).ModificationCount
            /\ \A t \in Threads :
                 (UpdateStores(t) /\ loc[t].key = k)
                 => StoredNext(k).ModificationCount = Stored(k).ModificationCount + 1]_vars

\* C8 as amended: the write of an update flow stores 1 more than the count
\* its own Get returned (1 when its Get found nothing); the stored count rises
\* by exactly 1 when it still is the count that Get returned.
C8_CountFromRead ==
    [][\A t \in Threads : \A k \in Keys :
         (UpdateStores(t) /\ loc[t].key = k)
         => LET found == loc[t].err = ErrNil
                read == loc[t].ret.ModificationCount
            IN  /\ StoredNext(k).ModificationCount = IF found THEN read + 1 ELSE 1
                /\ (found /\ Present(k) /\ Stored(k).ModificationCount = read)
                       => StoredNext(k).ModificationCount
                             = Stored(k).ModificationCount + 1]_vars

C8_Witness ==
    \E t \in Threads :
        /\ pc[t] = "hput_respond" /\ loc[t].err = ErrNil
        /\ loc[t].ret.ModificationCount = 1
        /\ Stored(loc[t].key).ModificationCount = 2
        /\ \E u \in Threads \ {t} : pc[u] = "put_store" /\ loc[u].key = loc[t].key

\* Every thread has completed an update flow on key k whose Get returned
\* count r and whose Put succeeded.
AllUpdated(k, r) ==
    \A t \in Threads :
        /\ pc[t] = "done" /\ loc[t].op = "handlePut" /\ loc[t].key = k
        /\ loc[t].err = ErrNil
        /\ loc[t].ret.ModificationCount = r

\* C9: when all M update flows on an existing key have read the same count r
\* and all their Puts have succeeded, the stored modificationCount is r + 1,
\* which for M >= 2 is less than r + M: increments are lost.
C9_LostUpdate ==
    \A k \in Keys : \A r \in 1..MaxRequests :
        AllUpdated(k, r)
        => /\ Stored(k).ModificationCount = r + 1
           /\ Cardinality(Threads) >= 2
           /\ Stored(k).ModificationCount < r + Cardinality(Threads)

C9_Witness ==
    /\ AllUpdated(KeyA1, 1)
    /\ Stored(KeyA1).ModificationCount = 2
    /\ requests = 3

\* C10: a PUT whose id does not parse performs no store write.
C10_BadIdRejected ==
    \A t \in Threads :
        (loc[t].op = "handlePut" /\ ParseUUID(loc[t].req.ID).err) => ~wrote[t]

\* ------------------------------------------------------------------------
\* Construction with any segment count
\* ------------------------------------------------------------------------
\* getSegment(key) on the constructed store: indexing sht.segments panics
\* when the index is outside the slice.
Route(t) ==
    /\ pc[t] = "idle"
    /\ \E k \in Keys :
         LET i == SegmentIndex(k)
         IN  /\ loc' = [loc EXCEPT ![t] = [IdleLoc EXCEPT !.op = "getSegment",
                                                          !.key = k, !.seg = i]]
             /\ pc' = [pc EXCEPT ![t] = IF i \in DOMAIN segments THEN "done" ELSE "panic"]
    /\ UNCHANGED <<segments, segmentMask, maxSize, currentSize, sizeLock, wrote, lastPut, pristine, requests, requestedSegments, calls, poolVars, seen>>

InitConstruct == (\E n \in SegmentArgs : Constructed(n)) /\ NoCalls /\ NewPoolManager

NextConstruct ==
    \E t \in Threads :
        \/ Route(t)
        \/ Return(t)

SpecConstruct == InitConstruct /\ [][NextConstruct]_vars

IsPowerOfTwo(c) == \E e \in 0..20 : c = 2 ^ e

\* len(sht.segments)
SegmentCount == Cardinality(DOMAIN segments)

\* C11: for every requested segment count n, the store has c segments where
\* c is the smallest power of two that is at least n, segmentMask is c - 1,
\* and every key's hash masked with segmentMask is an index of a segment.
C11_SegmentRounding ==
    /\ IsPowerOfTwo(SegmentCount)
    /\ SegmentCount >= requestedSegments
    /\ \A c \in 1..SegmentCount :
         (IsPowerOfTwo(c) /\ c >= requestedSegments) => c >= SegmentCount
    /\ segmentMask = SegmentCount - 1
    /\ \A k \in Keys : SegmentIndex(k) \in DOMAIN segments

\* ------------------------------------------------------------------------
\* Puts that find their key absent, with Deletes
\* ------------------------------------------------------------------------
\* The workloads in which every Put holds its segment lock while its key is
\* absent: a Put whose key is present has not taken the segment lock yet.
NextAbsentPuts ==
    \E t \in Threads :
        \/ StartPut(t)
        \/ PutRLock(t)
        \/ PutCheck(t)
        \/ ~Present(loc[t].key) /\ PutLockSegment(t)
        \/ PutLockSize(t)
        \/ PutAdjust(t)
        \/ PutStore(t)
        \/ StartDelete(t)
        \/ DeleteLockSegment(t)
        \/ DeleteLockSize(t)
        \/ DeleteDecrement(t)
        \/ DeleteRemove(t)
        \/ Return(t)

SpecAbsentPuts == Init /\ [][NextAbsentPuts]_vars

\* Thread t is in a Put that has passed the first check.
PassedFirstCheck(t) ==
    /\ loc[t].op = "Put"
    /\ \/ pc[t] \in {"put_lockseg", "put_locksize", "put_adjust", "put_store"}
       \/ pc[t] = "done" /\ loc[t].entrySize > 0

\* C14: when every Put finds its key absent under its segment lock, the
\* counter never exceeds the capacity, however many Puts passed the first
\* check together; once all calls have returned, neither does the accounted
\* size of the entries present.
C14_NoOverAdmission ==
    /\ currentSize <= maxSize
    /\ Quiescent => SumAccounted(Keys) <= maxSize

\* Two Puts of different keys have both passed the first check; together they
\* exceed the capacity, one has been admitted and the other rejected by the
\* check under the usage lock.
C14_Witness ==
    \E t \in Threads : \E u \in Threads \ {t} :
        /\ PassedFirstCheck(t) /\ PassedFirstCheck(u)
        /\ loc[t].key # loc[u].key
        /\ loc[t].entrySize + loc[u].entrySize > maxSize
        /\ pc[t] = "done" /\ loc[t].err = ErrInsufficientMemory
        /\ pc[u] = "done" /\ loc[u].err = ErrNil
        /\ Present(loc[u].key) /\ ~Present(loc[t].key)

\* Thread t holds no lock of any segment.
HoldsNoSegmentLock(t) ==
    \A i \in DOMAIN segments : segments[i].mu.w # t /\ t \notin segments[i].mu.r

\* C15: a Put whose first check finds the counter at or above the capacity
\* returns ErrInsufficientMemory from that check: it holds no segment lock
\* before or after, and neither the counter nor any segment changes, whether
\* or not its key is present.
C15_FastPathRejection ==
    [][\A t \in Threads :
         (Leaves(t, "put_check") /\ currentSize >= maxSize)
         => /\ pc'[t] = "done"
            /\ loc'[t].err = ErrInsufficientMemory
            /\ HoldsNoSegmentLock(t)
            /\ segments' = segments
            /\ currentSize' = currentSize
            /\ maxSize' = maxSize
            /\ ~wrote'[t]]_vars

\* A Put on a present key has been rejected by the first check.
C15_Witness ==
    \E t \in Threads :
        /\ pc[t] = "done" /\ loc[t].op = "Put"
        /\ loc[t].err = ErrInsufficientMemory
        /\ loc[t].entrySize = 0
        /\ currentSize >= maxSize
        /\ Present(loc[t].key)
        /\ ~wrote[t]

\* C19: the write of an update flow whose Get found an entry stores that
\* entry's id and location id, whatever id the request carries, and changes
\* only the three measurements and modificationCount (lastUpdated is the
\* store's stamp); when the stored entry still is the one Get returned, the
\* stored id does not change.  A flow whose Get found nothing stores the id
\* parsed from the request.
C19_IdentifierStability ==
    [][\A t \in Threads : \A k \in Keys :
         (UpdateStores(t) /\ loc[t].key = k)
         => LET found == loc[t].err = ErrNil
                read == loc[t].ret
                req == loc[t].req
            IN  /\ found =>
                     /\ \E ts \in Timestamps :
                          StoredNext(k) =
                            [read EXCEPT !.SeismicActivity = req.SeismicActivity,
                                         !.TemperatureC = req.TemperatureC,
                                         !.RadiationLevel = req.RadiationLevel,
                                         !.ModificationCount = read.ModificationCount + 1,
                                         !.LastUpdated = ts]
                     /\ (Present(k) /\ Stored(k) = read)
                            => /\ StoredNext(k).Id = Stored(k).Id
                               /\ StoredNext(k).LocationId = Stored(k).LocationId
                /\ ~found => StoredNext(k).Id = ParseUUID(req.ID).id]_vars

\* An update whose request carries a well-formed id other than the stored one
\* has been written, and the stored id is the one the entry had.
C19_Witness ==
    \E t \in Threads :
        /\ pc[t] = "hput_respond" /\ loc[t].op = "handlePut" /\ loc[t].err = ErrNil
        /\ loc[t].ret.ModificationCount >= 1
        /\ ~ParseUUID(loc[t].req.ID).err
        /\ ParseUUID(loc[t].req.ID).id # loc[t].ret.Id
        /\ Stored(loc[t].key).Id = loc[t].ret.Id
        /\ Stored(loc[t].key).SeismicActivity = loc[t].req.SeismicActivity
        /\ Stored(loc[t].key).ModificationCount = loc[t].ret.ModificationCount + 1

\* A Delete of key k has lowered the counter and not yet removed the entry.
BeingRemoved(k) == \E t \in Threads : pc[t] = "del_remove" /\ loc[t].key = k

\* C20 as stated: in every reachable state the counter is at least the sum of
\* the accounted sizes of the entries present.
C20_CounterCoversPresent == currentSize >= SumAccounted(Keys)

\* C20 as amended: the counter is at least the sum of the accounted sizes of
\* the entries present that no Delete is removing; the subtraction of Delete
\* does not wrap, and an admitted Put leaves the counter at the unwrapped sum
\* of the old value and the size it adds.
C20_NoUnderflow ==
    /\ currentSize >= SumAccounted({k \in Keys : ~BeingRemoved(k)})
    /\ \A t \in Threads :
         pc[t] = "del_decr"
         => /\ currentSize >= loc[t].entrySize
            /\ Released(currentSize, loc[t].entrySize) = currentSize - loc[t].entrySize
    /\ \A t \in Threads :
         pc[t] = "put_adjust"
         => LET a == Admit(currentSize, maxSize, loc[t].entrySize, loc[t].oldSize,
                           loc[t].exists)
            IN  a.ok => a.size \in {currentSize + loc[t].entrySize - loc[t].oldSize,
                                     currentSize + loc[t].entrySize}

\* A Delete has lowered the counter below the sum over the entries present,
\* its own entry still being in the map.
C20_Witness ==
    \E t \in Threads :
        /\ pc[t] = "del_remove"
        /\ Present(loc[t].key)
        /\ currentSize < SumAccounted(Keys)
        /\ currentSize = SumAccounted(Keys) - loc[t].entrySize

\* ------------------------------------------------------------------------
\* Count and GetKeys
\* ------------------------------------------------------------------------
\* A count that takes every segment for one entry.
CountedOne(count, data) == count + 1

\* count += len(segment.data)
Counted(count, data) == count + Cardinality(DOMAIN data)

\* The orders in which "for k := range segment.data" can yield the keys.
RangeOrders(data) ==
    {s \in [1..Cardinality(DOMAIN data) -> DOMAIN data] :
        \A a, b \in DOMAIN s : a # b => s[a] # s[b]}

\* Where a loop over sht.segments goes after segment i.
NextSegment(i, again) == IF i + 1 \in DOMAIN segments THEN again ELSE "done"

\* segment.mu.RLock() of the segment the loop of Count is at
CountRLock(t) ==
    /\ pc[t] = "count_rlock"
    /\ CanRLock(segments[loc[t].i].mu)
    /\ segments' = [segments EXCEPT ![loc[t].i].mu = RLock(@, t)]
    /\ pc' = [pc EXCEPT ![t] = "count_read"]
    /\ UNCHANGED <<segmentMask, maxSize, currentSize, sizeLock, loc, wrote, lastPut, pristine, requests, requestedSegments, calls, poolVars, seen>>

\* count += len(segment.data) and segment.mu.RUnlock(); after the last
\* segment, the return
CountRead(t) ==
    /\ pc[t] = "count_read"
    /\ LET i == loc[t].i
       IN  /\ segments' = [segments EXCEPT ![i].mu = RUnlock(@, t)]
           /\ loc' = [loc EXCEPT ![t].count = Counted(@, segments[i].data),
                                 ![t].i = i + 1]
           /\ pc' = [pc EXCEPT ![t] = NextSegment(i, "count_rlock")]
    /\ UNCHANGED <<segmentMask, maxSize, currentSize, sizeLock, wrote, lastPut, pristine, requests, requestedSegments, calls, poolVars, seen>>

\* segment.mu.RLock() of the segment the loop of GetKeys is at
KeysRLock(t) ==
    /\ pc[t] = "keys_rlock"
    /\ CanRLock(segments[loc[t].i].mu)
    /\ segments' = [segments EXCEPT ![loc[t].i].mu = RLock(@, t)]
    /\ pc' = [pc EXCEPT ![t] = "keys_read"]
    /\ UNCHANGED <<segmentMask, maxSize, currentSize, sizeLock, loc, wrote, lastPut, pristine, requests, requestedSegments, calls, poolVars, seen>>

\* the append of the segment's keys and segment.mu.RUnlock(); after the last
\* segment, the return
KeysRead(t) ==
    /\ pc[t] = "keys_read"
    /\ LET i == loc[t].i
       IN  /\ segments' = [segments EXCEPT ![i].mu = RUnlock(@, t)]
           /\ \E s \in RangeOrders(segments[i].data) :
                loc' = [loc EXCEPT ![t].keys = @ \o s, ![t].i = i + 1]
           /\ pc' = [pc EXCEPT ![t] = NextSegment(i, "keys_rlock")]
    /\ UNCHANGED <<segmentMask, maxSize, currentSize, sizeLock, wrote, lastPut, pristine, requests, requestedSegments, calls, poolVars, seen>>

\* ------------------------------------------------------------------------
\* The store under a bounded number of concurrent calls of all its methods
\* ------------------------------------------------------------------------
\* The calls a goroutine can make, with their arguments.
StoreCalls ==
    {[op |-> "Get", key |-> k, entry |-> ZeroEntry] : k \in Keys}
    \cup {[op |-> "Delete", key |-> k, entry |-> ZeroEntry] : k \in Keys}
    \cup UNION {{[op |-> "Put", key |-> k, entry |-> e] : e \in CallerEntries(k)} : k \in Keys}
    \cup {[op |-> o, key |-> <<>>, entry |-> ZeroEntry] : o \in {"Size", "Count", "GetKeys"}}

\* The position a call starts at: the first lock it asks for.  A loop over no
\* segments returns at once.
FirstStep(op) ==
    CASE op = "Get" -> "get_rlock"
      [] op = "Put" -> "put_rlock"
      [] op = "Delete" -> "del_lockseg"
      [] op = "Size" -> "size_rlock"
      [] op = "Count" -> NextSegment(0 - 1, "count_rlock")
      [] op = "GetKeys" -> NextSegment(0 - 1, "keys_rlock")

\* The calls of Count and GetKeys in progress.
Scans == {t \in Threads : loc[t].op \in {"Count", "GetKeys"} /\ pc[t] # "done"}

\* A goroutine calls one of the methods cs of the store, while fewer than max
\* calls have been made.
Start(t, cs, max) ==
    /\ pc[t] = "idle"
    /\ calls < max
    /\ calls' = calls + 1
    /\ \E c \in cs :
         /\ c.op \in {"Count", "GetKeys"} => Cardinality(Scans) < MaxScans
         /\ loc' = [loc EXCEPT ![t] = [IdleLoc EXCEPT !.op = c.op, !.key = c.key,
                                                      !.entry = c.entry]]
         /\ pc' = [pc EXCEPT ![t] = FirstStep(c.op)]
         /\ seen' = [seen EXCEPT ![t] = IF c.op = "Count"
                                        THEN {Cardinality(StoredKeys)} ELSE {}]
    /\ wrote' = [wrote EXCEPT ![t] = FALSE]
    /\ UNCHANGED <<segments, segmentMask, maxSize, currentSize, sizeLock, lastPut, pristine, requests, requestedSegments, poolVars>>

StartCall(t) == Start(t, StoreCalls, MaxCalls)

\* A step of a call of thread t that has started.
CallStep(t) ==
    \/ GetRLock(t)
    \/ GetRead(t)
    \/ PutRLock(t)
    \/ PutCheck(t)
    \/ PutLockSegment(t)
    \/ PutLockSize(t)
    \/ PutAdjust(t)
    \/ PutStore(t)
    \/ DeleteLockSegment(t)
    \/ DeleteLockSize(t)
    \/ DeleteDecrement(t)
    \/ DeleteRemove(t)
    \/ SizeRLock(t)
    \/ SizeRead(t)
    \/ CountRLock(t)
    \/ CountRead(t)
    \/ KeysRLock(t)
    \/ KeysRead(t)

NextCalls ==
    \E t \in Threads :
        \/ StartCall(t)
        \/ CallStep(t)
        \/ Return(t)

SpecCalls == Init /\ [][NextCalls]_vars

\* Every goroutine that can take a step of its call is eventually scheduled:
\* Go's scheduler is preemptive, and a lock that stays free is granted.
FairSpecCalls == SpecCalls /\ \A t \in Threads : WF_vars(CallStep(t))

\* Thread t holds no lock at all.
HoldsNoLock(t) ==
    /\ HoldsNoSegmentLock(t)
    /\ sizeLock.w # t /\ t \notin sizeLock.r

\* Thread t is about to ask for a segment lock.
AcquiringSegmentLock(t) ==
    pc[t] \in {"get_rlock", "put_lockseg", "del_lockseg", "count_rlock", "keys_rlock"}

\* Thread t is inside a call.
InCall(t) == pc[t] \notin {"idle", "done"}

\* C17: every call that has started returns; a call that has returned, with
\* an error or without, holds no lock, so later calls on any key complete;
\* no thread holds the usage lock while it asks for a segment lock.
C17_Completion ==
    /\ [](\A t \in Threads : ~InCall(t) => HoldsNoLock(t))
    /\ [](\A t \in Threads : AcquiringSegmentLock(t) => (sizeLock.w # t /\ t \notin sizeLock.r))
    /\ \A t \in Threads : InCall(t) ~> (pc[t] = "done")

\* ------------------------------------------------------------------------
\* Count beside Put and Delete
\* ------------------------------------------------------------------------
CountCalls == {c \in StoreCalls : c.op \in {"Put", "Delete", "Count"}}

StartCountCall(t) == Start(t, CountCalls, MaxCountCalls)

NextCount ==
    \E t \in Threads :
        \/ StartCountCall(t)
        \/ PutRLock(t)
        \/ PutCheck(t)
        \/ PutLockSegment(t)
        \/ PutLockSize(t)
        \/ PutAdjust(t)
        \/ PutStore(t)
        \/ DeleteLockSegment(t)
        \/ DeleteLockSize(t)
        \/ DeleteDecrement(t)
        \/ DeleteRemove(t)
        \/ CountRLock(t)
        \/ CountRead(t)
        \/ Return(t)

SpecCount == Init /\ [][NextCount]_vars

\* Thread t has a result of Count.
CountReturned(t) == pc[t] = "done" /\ loc[t].op = "Count"

\* C18: a Count during which the number of stored entries did not change
\* returns that number.  (A Count during which it changed can return a number
\* it never was: C18_Witness.)
C18_CountWithoutMutation ==
    \A t \in Threads :
        (CountReturned(t) /\ Cardinality(seen[t]) = 1) => loc[t].count \in seen[t]

\* Count has returned a number that the number of stored entries never was
\* between the call and the return.
C18_Witness ==
    \E t \in Threads :
        /\ CountReturned(t)
        /\ loc[t].count \notin seen[t]
        /\ Cardinality(DOMAIN segments) >= 2

\* The threads between segment.mu.Lock() and the Unlock of segment i: the
\* part of Put and Delete that reads and writes the segment's map.
SegmentWriters(i) ==
    {t \in Threads :
        /\ pc[t] \in {"put_locksize", "put_adjust", "put_store",
                      "del_locksize", "del_decr", "del_remove"}
        /\ SegmentIndex(loc[t].key) = i}

\* The threads between segment.mu.RLock() and the RUnlock of segment i: the
\* part of Get, Count and GetKeys that reads the segment's map.
SegmentReaders(i) ==
    {t \in Threads :
        \/ pc[t] = "get_read" /\ SegmentIndex(loc[t].key) = i
        \/ pc[t] \in {"count_read", "keys_read"} /\ loc[t].i = i}

\* Every thread that is at an access holds the lock the access needs, and a
\* writer of a segment is alone in it.
LockDiscipline ==
    /\ \A i \in DOMAIN segments :
         /\ Cardinality(SegmentWriters(i)) <= 1
         /\ SegmentWriters(i) # {} => SegmentReaders(i) = {}
         /\ \A t \in SegmentWriters(i) : segments[i].mu.w = t
         /\ \A t \in SegmentReaders(i) : t \in segments[i].mu.r
    /\ \A t \in Threads :
         /\ pc[t] \in {"put_adjust", "del_decr"} => sizeLock.w = t
         /\ pc[t] \in {"put_check", "size_read"} => t \in sizeLock.r

\* A step that changes a segment's map is a step of the thread that holds
\* that segment's exclusive lock, and a step that changes the counter is a
\* step of the thread that holds the exclusive usage lock.
WritesUnderLock ==
    /\ \A i \in DOMAIN segments :
         segments'[i].data # segments[i].data
         => \E t \in Threads : segments[i].mu.w = t /\ pc'[t] # pc[t]
    /\ currentSize' # currentSize
         => \E t \in Threads : sizeLock.w = t /\ pc'[t] # pc[t]

\* C16: under concurrent Get, Put, Delete, Count, GetKeys and Size a
\* segment's map is written only under that segment's exclusive lock and read
\* only under its shared or exclusive lock, the counter is written only under
\* the exclusive usage lock, and a writer of a segment overlaps no reader and
\* no other writer of it.
C16_LockDiscipline == []LockDiscipline /\ [][WritesUnderLock]_vars

\* A Put is inside the exclusive section of the segment that a Count has
\* reached and waits to read.
C16_Witness ==
    \E t \in Threads : \E u \in Threads \ {t} :
        /\ pc[t] = "put_store"
        /\ pc[u] = "count_rlock"
        /\ loc[u].i = SegmentIndex(loc[t].key)
        /\ segments[loc[u].i].mu.w = t

\* A Put has been rejected by the check under the usage lock, holding the
\* segment lock, and has returned; every lock is free, and the other thread
\* has completed a call that started after it.
C17_Witness ==
    \E t \in Threads : \E u \in Threads \ {t} :
        /\ pc[t] = "done" /\ loc[t].op = "Put"
        /\ loc[t].err = ErrInsufficientMemory /\ loc[t].entrySize > 0
        /\ pc[u] = "done" /\ loc[u].op = "GetKeys"
        /\ calls = MaxCalls
        /\ sizeLock = FreeLock
        /\ \A i \in DOMAIN segments : segments[i].mu = FreeLock

\* ------------------------------------------------------------------------
\* The buffer pools
\* ------------------------------------------------------------------------
storeVars ==
    <<segments, segmentMask, maxSize, currentSize, sizeLock, wrote, lastPut,
      pristine, requests, requestedSegments, seen>>

\* make([]byte, size)
MakeBuffer(size) ==
    [ok |-> TRUE, len |-> size, data |-> [i \in 1..size |-> 0], hist |-> "fresh"]

\* NewBytePool(size): a sync.Pool without items
NewBytePool(size) == [size |-> size, items |-> <<>>]

\* A reset that sets the length and leaves the bytes.
ResetLength(b, size) == [b EXCEPT !.len = size]

\* BytePool.Put: *b = (*b)[:p.size], then every byte of *b set to 0
Reset(b, size) ==
    [b EXCEPT !.len = size,
              !.data = [i \in 1..Cap(b) |-> IF i <= size THEN 0 ELSE b.data[i]],
              !.hist = IF b.hist = "written" THEN "recycled" ELSE b.hist]

\* A second lookup that never finds the pool.
RecheckNever(ps, size) == FALSE

\* GetPool: "if pool, ok = pm.pools[size]; ok" under the write lock
Recheck(ps, size) == size \in DOMAIN ps

\* s without the element at index n
Without(s, n) == SubSeq(s, 1, n - 1) \o SubSeq(s, n + 1, Len(s))

\* The calls on the pool manager a goroutine can make.  It holds at most one
\* buffer: it asks for one when it has none and releases the one it has.
PoolCalls(t) ==
    {[op |-> "GetPool", size |-> n] : n \in BufferSizes}
    \cup {[op |-> "Cleanup", size |-> 0]}
    \cup (IF loc[t].buf.ok
          THEN {[op |-> "PutBuffer", size |-> Cap(loc[t].buf)]}
          ELSE {[op |-> "GetBuffer", size |-> n] : n \in BufferSizes})

\* A goroutine calls GetPool, GetBuffer, PutBuffer or Cleanup.
StartPoolCall(t) ==
    /\ pc[t] = "idle"
    /\ calls < MaxPoolCalls
    /\ calls' = calls + 1
    /\ \E c \in PoolCalls(t) :
         /\ loc' = [loc EXCEPT ![t] = [IdleLoc EXCEPT !.op = c.op, !.bsize = c.size,
                                                      !.buf = loc[t].buf]]
         /\ pc' = [pc EXCEPT ![t] = IF c.op = "Cleanup" THEN "cl_lock" ELSE "gp_rlock"]
    /\ UNCHANGED <<storeVars, poolVars>>

\* Where GetPool returns to.
AfterGetPool(t) ==
    CASE loc[t].op = "GetBuffer" -> "bp_get"
      [] loc[t].op = "PutBuffer" -> "bp_put"
      [] OTHER -> "done"

\* GetPool: pm.mu.RLock()
GetPoolRLock(t) ==
    /\ pc[t] = "gp_rlock"
    /\ CanRLock(poolMu)
    /\ poolMu' = RLock(poolMu, t)
    /\ pc' = [pc EXCEPT ![t] = "gp_read"]
    /\ UNCHANGED <<storeVars, loc, calls, pools, bytePools, made>>

\* GetPool: the lookup, pm.mu.RUnlock(), and the return if the pool is there
GetPoolRead(t) ==
    /\ pc[t] = "gp_read"
    /\ poolMu' = RUnlock(poolMu, t)
    /\ IF loc[t].bsize \in DOMAIN pools
       THEN /\ loc' = [loc EXCEPT ![t].pool = pools[loc[t].bsize]]
            /\ pc' = [pc EXCEPT ![t] = AfterGetPool(t)]
       ELSE /\ loc' = [loc EXCEPT ![t].slow = TRUE]
            /\ pc' = [pc EXCEPT ![t] = "gp_lock"]
    /\ UNCHANGED <<storeVars, calls, pools, bytePools, made>>

\* GetPool: pm.mu.Lock()
GetPoolLock(t) ==
    /\ pc[t] = "gp_lock"
    /\ CanLock(poolMu)
    /\ poolMu' = Lock(poolMu, t)
    /\ pc' = [pc EXCEPT ![t] = "gp_create"]
    /\ UNCHANGED <<storeVars, loc, calls, pools, bytePools, made>>

\* GetPool: the second lookup, the creation if the pool still is not there,
\* the deferred pm.mu.Unlock() and the return
GetPoolCreate(t) ==
    /\ pc[t] = "gp_create"
    /\ LET size == loc[t].bsize
       IN  IF Recheck(pools, size)
           THEN /\ loc' = [loc EXCEPT ![t].pool = pools[size]]
                /\ UNCHANGED <<pools, bytePools, made>>
           ELSE /\ bytePools' = Append(bytePools, NewBytePool(size))
                /\ pools' = MapSet(pools, size, Len(bytePools) + 1)
                /\ made' = [made EXCEPT ![size] = @ + 1]
                /\ loc' = [loc EXCEPT ![t].pool = Len(bytePools) + 1]
    /\ poolMu' = Unlock(poolMu, t)
    /\ pc' = [pc EXCEPT ![t] = AfterGetPool(t)]
    /\ UNCHANGED <<storeVars, calls>>

\* BytePool.Get: sync.Pool hands out an item put earlier, or calls New
BytePoolGet(t) ==
    /\ pc[t] = "bp_get"
    /\ LET p == loc[t].pool
       IN  \/ /\ loc' = [loc EXCEPT ![t].buf = MakeBuffer(bytePools[p].size)]
              /\ bytePools' = bytePools
           \/ \E n \in DOMAIN bytePools[p].items :
                /\ loc' = [loc EXCEPT ![t].buf = bytePools[p].items[n]]
                /\ bytePools' = [bytePools EXCEPT ![p].items = Without(@, n)]
    /\ pc' = [pc EXCEPT ![t] = "done"]
    /\ UNCHANGED <<storeVars, calls, pools, poolMu, made>>

\* BytePool.Put: a buffer below the pool's size is dropped; any other is
\* reset and put into the sync.Pool
BytePoolPut(t) ==
    /\ pc[t] = "bp_put"
    /\ LET p == loc[t].pool
           b == loc[t].buf
       IN  IF Cap(b) < bytePools[p].size
           THEN bytePools' = bytePools
           ELSE bytePools' = [bytePools EXCEPT
                                ![p].items = Append(@, Reset(b, bytePools[p].size))]
    /\ loc' = [loc EXCEPT ![t].buf = NoBuffer]
    /\ pc' = [pc EXCEPT ![t] = "done"]
    /\ UNCHANGED <<storeVars, calls, pools, poolMu, made>>

\* Cleanup: pm.mu.Lock()
CleanupLock(t) ==
    /\ pc[t] = "cl_lock"
    /\ CanLock(poolMu)
    /\ poolMu' = Lock(poolMu, t)
    /\ pc' = [pc EXCEPT ![t] = "cl_clear"]
    /\ UNCHANGED <<storeVars, loc, calls, pools, bytePools, made>>

\* Cleanup: the new empty map, the deferred pm.mu.Unlock() and the return.
\* Every call that has not been taken back by its caller is marked as one a
\* Cleanup has run beside.
CleanupClear(t) ==
    /\ pc[t] = "cl_clear"
    /\ pools' = NoPools
    /\ made' = [s \in BufferSizes |-> 0]
    /\ poolMu' = Unlock(poolMu, t)
    /\ loc' = [u \in Threads |->
                 IF pc[u] # "idle" THEN [loc[u] EXCEPT !.cleaned = TRUE] ELSE loc[u]]
    /\ pc' = [pc EXCEPT ![t] = "done"]
    /\ UNCHANGED <<storeVars, calls, bytePools>>

\* The garbage collector empties a sync.Pool.
Collect ==
    /\ \E p \in DOMAIN bytePools :
         /\ bytePools[p].items # <<>>
         /\ bytePools' = [bytePools EXCEPT ![p].items = <<>>]
    /\ UNCHANGED <<storeVars, pc, loc, calls, pools, poolMu, made>>

\* The holder of a buffer writes its bytes.
CallerWrite(t) ==
    /\ pc[t] = "idle"
    /\ loc[t].buf.ok
    /\ \E i \in 1..loc[t].buf.len : loc[t].buf.data[i] # CallerByte
    /\ loc' = [loc EXCEPT ![t].buf.data =
                 [i \in DOMAIN @ |-> IF i <= loc[t].buf.len THEN CallerByte ELSE @[i]],
                          ![t].buf.hist = "written"]
    /\ UNCHANGED <<storeVars, pc, calls, poolVars>>

\* The holder of a buffer reslices it: *b = (*b)[lo:hi]
CallerReslice(t) ==
    /\ pc[t] = "idle"
    /\ loc[t].buf.ok
    /\ \E lo \in 0..Cap(loc[t].buf) : \E hi \in lo..Cap(loc[t].buf) :
         /\ lo # 0 \/ hi # loc[t].buf.len
         /\ loc' = [loc EXCEPT ![t].buf.len = hi - lo,
                               ![t].buf.data = SubSeq(@, lo + 1, Len(@))]
    /\ UNCHANGED <<storeVars, pc, calls, poolVars>>

\* The caller takes the result of a call; it keeps the buffer it holds.
PoolReturn(t) ==
    /\ pc[t] = "done"
    /\ pc' = [pc EXCEPT ![t] = "idle"]
    /\ loc' = [loc EXCEPT ![t] = [IdleLoc EXCEPT !.buf = loc[t].buf]]
    /\ UNCHANGED <<storeVars, calls, poolVars>>

NextPool ==
    \/ \E t \in Threads :
        \/ StartPoolCall(t)
        \/ GetPoolRLock(t)
        \/ GetPoolRead(t)
        \/ GetPoolLock(t)
        \/ GetPoolCreate(t)
        \/ BytePoolGet(t)
        \/ BytePoolPut(t)
        \/ CleanupLock(t)
        \/ CleanupClear(t)
        \/ CallerWrite(t)
        \/ CallerReslice(t)
        \/ PoolReturn(t)
    \/ Collect

\* The pool manager does not depend on the store: one capacity is enough.
InitPool == Init /\ \A m \in MaxSizes : maxSize >= m

SpecPool == InitPool /\ [][NextPool]_vars

\* b has length size and every byte of its backing array is 0.
ZeroBuffer(b, size) ==
    /\ b.ok
    /\ b.len = size
    /\ Cap(b) = size
    /\ \A i \in 1..Cap(b) : b.data[i] = 0

\* C12: every buffer GetBuffer(size) returns has length size and all bytes
\* zero, whether it is new or was released by a caller that had written to it.
C12_NoLeak ==
    \A t \in Threads :
        (pc[t] = "done" /\ loc[t].op = "GetBuffer")
        => ZeroBuffer(loc[t].buf, loc[t].bsize)

\* GetBuffer has returned a buffer that a caller wrote to and released.
C12_Witness ==
    \E t \in Threads :
        /\ pc[t] = "done" /\ loc[t].op = "GetBuffer"
        /\ loc[t].buf.hist = "recycled"
        /\ loc[t].bsize > 0
        /\ ZeroBuffer(loc[t].buf, loc[t].bsize)

\* Thread t has the *BytePool that GetPool returned, and no Cleanup has run
\* since it made the call.
Received(t) ==
    /\ loc[t].op \in {"GetPool", "GetBuffer", "PutBuffer"}
    /\ pc[t] \in {"bp_get", "bp_put", "done"}
    /\ ~loc[t].cleaned

\* With no Cleanup beside them, at most one BytePool is created for a size,
\* it is the registered one, and every caller has received it.
OnePoolPerSize ==
    /\ \A s \in BufferSizes : made[s] <= 1 /\ (made[s] = 1 <=> s \in DOMAIN pools)
    /\ \A s \in DOMAIN pools : bytePools[pools[s]].size = s
    /\ \A t \in Threads :
         Received(t) => /\ loc[t].bsize \in DOMAIN pools
                        /\ loc[t].pool = pools[loc[t].bsize]

\* A step that changes pm.pools is a step of the holder of pm.mu's write lock.
MapWrittenUnderLock ==
    pools' # pools => \E t \in Threads : poolMu.w = t /\ pc'[t] # pc[t]

\* C13: concurrent GetPool calls for a size, with no Cleanup between them,
\* create and register exactly one BytePool for it and all return that pool;
\* pm.pools is written only under the write lock.
C13_OnePool == []OnePoolPerSize /\ [][MapWrittenUnderLock]_vars

\* Two calls for the same size both missed the pool in the first lookup; one
\* created it and the other found it in the second lookup.
C13_Witness ==
    \E t \in Threads : \E u \in Threads \ {t} :
        /\ Received(t) /\ Received(u)
        /\ pc[t] = "done" /\ pc[u] = "done"
        /\ loc[t].slow /\ loc[u].slow
        /\ loc[t].bsize = loc[u].bsize
        /\ loc[t].pool = loc[u].pool
        /\ made[loc[t].bsize] = 1

====
